---- MODULE Spec2Model ----
(***************************************************************************)
(* Monte Carlo tree search (src/src/mcts.rs) over the Game trait, with the *)
(* 2048 game of src/src/twofortyeight.rs as the game implementation.       *)
(*                                                                         *)
(* f32 values are modelled in fixed point: a finite value is an integer    *)
(* number of thousandths, next to the IEEE specials NaN, +inf and -inf.    *)
(* Visit counts, rewards and scores are whole numbers in every run of the  *)
(* program, so n, q and score are kept as integers and lifted where the    *)
(* code divides or compares them.                                          *)
(***************************************************************************)
EXTENDS Integers, Sequences, FiniteSets, TLC

VARIABLES
    game,      \* the application's game state (the caller's `game`)
    mcts,      \* the MCTS struct: [root, game]
    result,    \* what the last query returned (search path, best action, f32)
    po,        \* a playout call in progress: [pc, game]
    panic,     \* "" or the message of the panic that ended the program
    last,      \* the last operation run: [op, n]
    iters      \* history: iteration calls completed on the current tree

vars == <<game, mcts, result, po, panic, last, iters>>

----------------------------------------------------------------------------
(* Bounds of the model *)

\* iteration calls run against one 2048 tree
MaxIter == 4
\* largest n_samples passed to search / expected_reward on a 2048 state
MaxSamples == 2
\* moves the application applies to its own game
MaxAdvance == 1

----------------------------------------------------------------------------
(* f32 *)

\* one whole unit in thousandths
ONE == 1000

Fin(x) == [k |-> "fin", v |-> x]
NaN == [k |-> "nan", v |-> 0]
PInf == [k |-> "inf", v |-> 1]
NInf == [k |-> "inf", v |-> -1]
NEG_INFINITY == NInf

Sgn(x) == IF x < 0 THEN -1 ELSE 1
Abs(x) == IF x < 0 THEN -x ELSE x

\* `usize as f32`, and a whole-number f32
FromInt(i) == Fin(i * ONE)

\* a + b
fadd(a, b) ==
    IF a.k = "nan" \/ b.k = "nan" THEN NaN
    ELSE IF a.k = "inf" /\ b.k = "inf" THEN (IF a.v = b.v THEN a ELSE NaN)
    ELSE IF a.k = "inf" THEN a
    ELSE IF b.k = "inf" THEN b
    ELSE Fin(a.v + b.v)

\* a * b
fmul(a, b) ==
    IF a.k = "nan" \/ b.k = "nan" THEN NaN
    ELSE IF a.k = "inf" \/ b.k = "inf"
         THEN (IF a.v = 0 \/ b.v = 0 THEN NaN
               ELSE [k |-> "inf", v |-> Sgn(a.v) * Sgn(b.v)])
    ELSE Fin(Sgn(a.v) * Sgn(b.v) * ((Abs(a.v) * Abs(b.v)) \div ONE))

\* a / b
fdiv(a, b) ==
    IF a.k = "nan" \/ b.k = "nan" THEN NaN
    ELSE IF a.k = "inf" /\ b.k = "inf" THEN NaN
    ELSE IF a.k = "inf" THEN [k |-> "inf", v |-> a.v * Sgn(b.v)]
    ELSE IF b.k = "inf" THEN Fin(0)
    ELSE IF b.v = 0
         THEN (IF a.v = 0 THEN NaN ELSE [k |-> "inf", v |-> Sgn(a.v)])
    ELSE LET x == Abs(a.v)
             y == Abs(b.v)
         IN  Fin(Sgn(a.v) * Sgn(b.v) * ((x \div y) * ONE + ((x % y) * ONE) \div y))

\* a > b
fgt(a, b) ==
    IF a.k = "nan" \/ b.k = "nan" THEN FALSE
    ELSE IF a.k = "inf" /\ b.k = "inf" THEN a.v > b.v
    ELSE IF a.k = "inf" THEN a.v > 0
    ELSE IF b.k = "inf" THEN b.v < 0
    ELSE a.v > b.v

\* floor of the square root of a natural number, by bisection
RECURSIVE ISqrtIn(_, _, _)
ISqrtIn(x, lo, hi) ==
    IF lo >= hi THEN lo
    ELSE LET mid == (lo + hi + 1) \div 2
         IN  IF mid * mid <= x THEN ISqrtIn(x, mid, hi) ELSE ISqrtIn(x, lo, mid - 1)

ISqrt(x) == ISqrtIn(x, 0, 46340)

\* a.sqrt()
fsqrt(a) ==
    IF a.k = "nan" THEN NaN
    ELSE IF a.k = "inf" THEN (IF a.v > 0 THEN PInf ELSE NaN)
    ELSE IF a.v < 0 THEN NaN
    ELSE Fin(ISqrt(a.v * ONE))

\* ln(1) .. ln(64) in thousandths
LnTable ==
    << 0, 693, 1099, 1386, 1609, 1792, 1946, 2079, 2197, 2303, 2398, 2485,
       2565, 2639, 2708, 2773, 2833, 2890, 2944, 2996, 3045, 3091, 3135, 3178,
       3219, 3258, 3296, 3332, 3367, 3401, 3434, 3466, 3497, 3526, 3555, 3584,
       3611, 3638, 3664, 3689, 3714, 3738, 3761, 3784, 3807, 3829, 3850, 3871,
       3892, 3912, 3932, 3951, 3970, 3989, 4007, 4025, 4043, 4060, 4078, 4094,
       4111, 4127, 4143, 4159 >>

\* a.ln(), for a whole number a
fln(a) ==
    IF a.k = "nan" THEN NaN
    ELSE IF a.k = "inf" THEN (IF a.v > 0 THEN PInf ELSE NaN)
    ELSE IF a.v < 0 THEN NaN
    ELSE IF a.v = 0 THEN NInf
    ELSE LET i == a.v \div ONE
         IN  Fin(LnTable[IF i > Len(LnTable) THEN Len(LnTable) ELSE i])

----------------------------------------------------------------------------
(* TwoFortyEight *)

WIDTH == 4
HEIGHT == 4

Up == "Up"
Down == "Down"
Left == "Left"
Right == "Right"

\* the loop of merge_vec over the filtered tiles, with its locals merged, next
\* and points; the result is [merged, next, points] at the end of the loop.
\* The tiles are u16: 2*t wraps at 65536 (a release build; a debug build stops
\* with an arithmetic overflow instead)
RECURSIVE merge_loop(_, _, _, _, _)
merge_loop(filtered_vec, i, merged, next, points) ==
    IF i > Len(filtered_vec) THEN [merged |-> merged, next |-> next, points |-> points]
    ELSE IF filtered_vec[i] = next
         THEN merge_loop(filtered_vec, i + 1,
                         Append(merged, (2 * next) % 65536), 0, points + 2 * next)
         ELSE merge_loop(filtered_vec, i + 1,
                         IF next # 0 THEN Append(merged, next) ELSE merged,
                         filtered_vec[i], points)

\* merge_vec with a flag that reports every line as changed
merge_vec_always_changed(vec) ==
    LET filtered_vec == SelectSeq(vec, LAMBDA t : t > 0)
        st == merge_loop(filtered_vec, 1, <<>>, 0, 0)
        merged == IF st.next # 0 THEN Append(st.merged, st.next) ELSE st.merged
    IN  [vec     |-> [i \in 1..Len(vec) |-> IF i <= Len(merged) THEN merged[i] ELSE 0],
         points  |-> st.points,
         changed |-> TRUE]

\* merge_vec(vec) = [vec, points, changed]
merge_vec(vec) ==
    LET orig_len == Len(vec)
        filtered_vec == SelectSeq(vec, LAMBDA t : t > 0)
        st == merge_loop(filtered_vec, 1, <<>>, 0, 0)
        merged == IF st.next # 0 THEN Append(st.merged, st.next) ELSE st.merged
        changed == orig_len # Len(merged)
    IN  [vec     |-> [i \in 1..orig_len |-> IF i <= Len(merged) THEN merged[i] ELSE 0],
         points  |-> st.points,
         changed |-> changed]

\* (start, ostride, istride) of a direction
Strides(action) ==
    CASE action = Up    -> <<0, 1, 4>>
      [] action = Down  -> <<12, 1, -4>>
      [] action = Left  -> <<0, 4, 1>>
      [] action = Right -> <<15, -4, -1>>

\* board index of the inner-th cell of the outer-th line
line_idx(s, outer, inner) == s[1] + outer * s[2] + inner * s[3]

\* the loops of shift_and_merge over the lines and their cells, with its
\* locals new_board, all_points and any_changed; the result is the return
\* value [board, points], points = -1 standing for None
RECURSIVE shift_lines(_, _, _, _, _, _)
shift_lines(board, s, outer, new_board, all_points, any_changed) ==
    IF outer = HEIGHT
    THEN [board |-> new_board, points |-> IF any_changed THEN all_points ELSE -1]
    ELSE LET vec == [inner \in 1..HEIGHT |-> board[line_idx(s, outer, inner - 1) + 1]]
             m == merge_vec(vec)
             RECURSIVE write(_, _)
             write(nb, inner) ==
                 IF inner = HEIGHT THEN nb
                 ELSE write([nb EXCEPT ![line_idx(s, outer, inner) + 1] = m.vec[inner + 1]],
                            inner + 1)
         IN  shift_lines(board, s, outer + 1,
                         write(new_board, 0),
                         all_points + m.points,
                         any_changed \/ m.changed)

\* shift_and_merge(board, action) = [board, points].
\* The board is the sequence board[1..16], cell idx of the code at idx + 1.
shift_and_merge(board, action) ==
    shift_lines(board, Strides(action), 0, [k \in 1..(WIDTH * HEIGHT) |-> 0], 0, FALSE)

get_tile(g, row, col) == g.board[row * WIDTH + col + 1]

board_full(g) ==
    ~ \E row \in 0..(HEIGHT - 1), col \in 0..(WIDTH - 1) : get_tile(g, row, col) = 0

\* #[derive(Clone)]: a copy of every field, the generator included
clone(g) == [f \in DOMAIN g |-> g[f]]

\* XorShiftRng: a deterministic generator. Its state is the seed it was made
\* from and the number of values drawn since; Streams[seed] is the sequence of
\* values it yields, repeated from its start when exhausted. The values are
\* not known to the model: each seed stands for one generator whose draws hit
\* every cell of the board.
Streams ==
    << <<0, 0, 0, 5, 0, 2, 0, 7, 1, 0, 1, 5, 1, 2, 1, 7,
         2, 0, 2, 5, 2, 2, 2, 7, 3, 0, 3, 5, 3, 2, 3, 7>>,
       <<4, 7, 7, 2, 5, 7, 6, 1, 7, 5, 6, 3, 5, 4, 5, 1,
         7, 4, 6, 0, 4, 5, 4, 0, 7, 7, 5, 2, 4, 6, 6, 2>> >>

from_seed(seed) == [seed |-> seed, pos |-> 0]

\* rng.gen::<usize>() with pos values drawn so far
gen(seed, pos) == Streams[seed][(pos % Len(Streams[seed])) + 1]

\* TwoFortyEight::new_empty()
new_empty ==
    [kind  |-> "TwoFortyEight",
     rng   |-> from_seed(1),
     board |-> [k \in 1..(WIDTH * HEIGHT) |-> 0],
     score |-> 0,
     moves |-> 0,
     abort |-> ""]

\* set_rng_seed(seed)
set_rng_seed(g, seed) == [g EXCEPT !.rng = from_seed(seed)]

set_tile(g, row, col, num) == [g EXCEPT !.board[row * WIDTH + col + 1] = num]

\* a spawn that draws one cell and writes the 2 there, empty or not
spawn_loop_overwrite(g, pos) ==
    set_tile([g EXCEPT !.rng.pos = (pos + 2) % Len(Streams[g.rng.seed])],
             gen(g.rng.seed, pos) % HEIGHT, gen(g.rng.seed, pos + 1) % WIDTH, 2)

\* the loop of random_spawn: a row and a column are drawn until they name an
\* empty cell; pos counts the values drawn
RECURSIVE spawn_loop(_, _)
spawn_loop(g, pos) ==
    IF get_tile(g, gen(g.rng.seed, pos) % HEIGHT, gen(g.rng.seed, pos + 1) % WIDTH) = 0
    THEN set_tile([g EXCEPT !.rng.pos = (pos + 2) % Len(Streams[g.rng.seed])],
                  gen(g.rng.seed, pos) % HEIGHT, gen(g.rng.seed, pos + 1) % WIDTH, 2)
    ELSE spawn_loop(g, pos + 2)

\* random_spawn(): the state it leaves behind; a state with abort # "" stands
\* for a call that panicked
random_spawn(g) ==
    IF board_full(g)
    THEN {[g EXCEPT !.abort = "assertion failed: !self.board_full()"]}
    ELSE {spawn_loop(g, g.rng.pos)}

TwoFortyEight_allowed_actions(g) ==
    SelectSeq(<<Up, Down, Left, Right>>,
              LAMBDA a : shift_and_merge(g.board, a).points # -1)

\* make_move(action); sm is the value shift_and_merge returned
TwoFortyEight_make_move(g, action) ==
    UNION {IF sm.points = -1
           THEN {[g EXCEPT !.abort = "Illegal move"]}
           ELSE random_spawn([g EXCEPT !.score = @ + sm.points,
                                       !.moves = @ + 1,
                                       !.board = sm.board]) :
           sm \in {shift_and_merge(g.board, action)}}

TwoFortyEight_reward(g) == g.score

----------------------------------------------------------------------------
(* The game of the two-outcome scenario: one decision between an action    *)
(* that ends the game with reward 0 and one that ends it with reward 10.   *)

Zero == "Zero"
Ten == "Ten"

Scenario_new ==
    [kind  |-> "Scenario",
     rng   |-> from_seed(1),
     board |-> <<0>>,
     score |-> 0,
     moves |-> 0,
     abort |-> ""]

Scenario_allowed_actions(g) == IF g.board = <<0>> THEN <<Zero, Ten>> ELSE <<>>

Scenario_make_move(g, action) ==
    IF ~ \E i \in 1..Len(Scenario_allowed_actions(g)) :
            Scenario_allowed_actions(g)[i] = action
    THEN {[g EXCEPT !.abort = "Illegal move"]}
    ELSE {[g EXCEPT !.board = IF action = Ten THEN <<2>> ELSE <<1>>,
                    !.score = IF action = Ten THEN 10 ELSE 0,
                    !.moves = @ + 1]}

Scenario_reward(g) == g.score

----------------------------------------------------------------------------
(* trait Game *)

allowed_actions(g) ==
    IF g.kind = "TwoFortyEight" THEN TwoFortyEight_allowed_actions(g)
    ELSE Scenario_allowed_actions(g)

\* the states make_move can leave behind (one per outcome of the game's own
\* randomness); a state with abort # "" stands for a call that panicked
make_move(g, action) ==
    IF g.kind = "TwoFortyEight" THEN TwoFortyEight_make_move(g, action)
    ELSE Scenario_make_move(g, action)

reward(g) ==
    IF g.kind = "TwoFortyEight" THEN TwoFortyEight_reward(g)
    ELSE Scenario_reward(g)

Range(s) == {s[i] : i \in 1..Len(s)}

\* choose_random(&v): any element of v
choose_random(v) == Range(v)

----------------------------------------------------------------------------
(* playout *)

\* the loop left while two moves remain
playout_continues_early_exit(potential_moves) == Len(potential_moves) > 2

\* while potential_moves.len() > 0
playout_continues(potential_moves) == Len(potential_moves) > 0

\* the loop of playout on the local game: the states it can end in
RECURSIVE playout_loop(_)
playout_loop(g) ==
    IF g.abort # "" THEN {g}
    ELSE LET potential_moves == allowed_actions(g)
         IN  IF playout_continues(potential_moves)
             THEN UNION {UNION {playout_loop(g2) : g2 \in make_move(g, action)} :
                           action \in choose_random(potential_moves)}
             ELSE {g}

\* playout(initial): [ret |-> the state returned, initial |-> the caller's state
\* after the call]
playout(initial) ==
    {[ret |-> g, initial |-> initial] : g \in playout_loop(clone(initial))}

----------------------------------------------------------------------------
(* TreeNode *)

\* Option::None for a node's action and for a best-action query
None == "None"

\* a new node that counts as fully expanded
TreeNode_new_fully_expanded(action) ==
    [action         |-> action,
     children       |-> <<>>,
     terminal_state |-> FALSE,
     fully_expanded |-> TRUE,
     n              |-> 0,
     q              |-> 0]

\* TreeNode::new(action)
TreeNode_new(action) ==
    [action         |-> action,
     children       |-> <<>>,
     terminal_state |-> FALSE,
     fully_expanded |-> FALSE,
     n              |-> 0,
     q              |-> 0]

\* the exploitation term q/n left out
uct_value_exploration_only(self, child, c) ==
    fmul(c, fsqrt(fdiv(fmul(FromInt(2), fln(FromInt(self.n))), FromInt(child.n))))

\* q/n + c*sqrt(2 ln(self.n) / child.n)
uct_value(self, child, c) ==
    fadd(fdiv(FromInt(child.q), FromInt(child.n)),
         fmul(c, fsqrt(fdiv(fmul(FromInt(2), fln(FromInt(self.n))),
                            FromInt(child.n)))))

RECURSIVE best_child_loop(_, _, _, _, _)
best_child_loop(self, c, i, best_value, best) ==
    IF i > Len(self.children) THEN best
    ELSE LET value == uct_value(self, self.children[i], c)
         IN  IF fgt(value, best_value)
             THEN best_child_loop(self, c, i + 1, value, i)
             ELSE best_child_loop(self, c, i + 1, best_value, best)

\* best_child(c): the index of the chosen child in self.children, 0 for None
best_child(self, c) == best_child_loop(self, c, 1, NEG_INFINITY, 0)

\* every direction counted as untried, legal or not
untried_actions_any(allowed, child_actions) ==
    SelectSeq(<<Up, Down, Left, Right>>, LAMBDA a : a \notin Range(child_actions))

\* the actions that have a child already not filtered out
untried_actions_unfiltered(allowed, child_actions) == allowed

\* the allowed actions no child has yet
untried_actions(allowed, child_actions) ==
    SelectSeq(allowed, LAMBDA a : a \notin Range(child_actions))

\* fully expanded one action too early
last_candidate_off_by_one(candidate_actions) == Len(candidate_actions) <= 2

\* the test compares with 0, which a non-empty candidate list never is
last_candidate_never(candidate_actions) == Len(candidate_actions) = 0

\* candidate_actions.len() == 1
last_candidate(candidate_actions) == Len(candidate_actions) = 1

\* the node marked as fully expanded only
mark_terminal_fully_expanded_only(self) == [self EXCEPT !.fully_expanded = TRUE]

\* self.fully_expanded = true; self.terminal_state = true
mark_terminal(self) == [self EXCEPT !.fully_expanded = TRUE, !.terminal_state = TRUE]

\* expand(game): [node |-> self after the call, child |-> index of the new child
\* (0 for None), abort |-> panic message], one per choice of choose_random
expand(self, g) ==
    LET allowed == allowed_actions(g)
        child_actions == [i \in 1..Len(self.children) |-> self.children[i].action]
        candidate_actions == untried_actions(allowed, child_actions)
    IN  IF Len(allowed) = 0
        THEN {[node  |-> mark_terminal(self),
               child |-> 0,
               abort |-> ""]}
        ELSE IF None \in Range(child_actions)
        THEN {[node |-> self, child |-> 0, abort |-> "Child node without action"]}
        ELSE IF Len(candidate_actions) = 0
        THEN {[node |-> self, child |-> 0, abort |-> "choose_random of an empty list"]}
        ELSE {[node  |-> [self EXCEPT
                            !.fully_expanded =
                                IF last_candidate(candidate_actions) THEN TRUE ELSE @,
                            !.children = Append(@, TreeNode_new(action))],
               child |-> Len(self.children) + 1,
               abort |-> ""] : action \in choose_random(candidate_actions)}

\* the visit not counted
update_statistics_q_only(self, delta) == [self EXCEPT !.q = @ + delta]

\* self.n += 1.; self.q += delta
update_statistics(self, delta) == [self EXCEPT !.n = @ + 1, !.q = @ + delta]

\* the visit of the new child not counted
update_child_q_only(self, child, delta) ==
    [self EXCEPT !.children[child].q = @ + delta]

\* the reward of the playout not added to the new child
update_child_n_only(self, child, delta) == [self EXCEPT !.children[child].n = @ + 1]

\* child.n += 1.; child.q += delta, for the child expand returned
update_child(self, child, delta) ==
    [self EXCEPT !.children[child].n = @ + 1, !.children[child].q = @ + delta]

\* an iteration that panicked with message msg
Aborted(self, g, msg) == [node |-> self, game |-> g, delta |-> 0, abort |-> msg]

\* iteration(game, c): [node |-> self after the call, game |-> *game after the
\* call, delta |-> the value returned, abort |-> panic message], one per outcome
\* of the random choices
RECURSIVE iteration(_, _, _)
iteration(self, g, c) ==
    IF self.terminal_state
    THEN LET delta == reward(g)
         IN  {[node  |-> update_statistics(self, delta),
               game  |-> g,
               delta |-> delta,
               abort |-> ""]}
    ELSE IF self.fully_expanded
    THEN LET i == best_child(self, c)
         IN  IF i = 0
             THEN {Aborted(self, g, "unwrap on a None value")}
             ELSE UNION {
                    IF g2.abort # "" THEN {Aborted(self, g2, g2.abort)}
                    ELSE {IF r.abort # "" THEN Aborted(self, r.game, r.abort)
                          ELSE [node  |-> update_statistics(
                                             [self EXCEPT !.children[i] = r.node],
                                             r.delta),
                                game  |-> r.game,
                                delta |-> r.delta,
                                abort |-> ""] :
                            r \in iteration(self.children[i], g2, c)} :
                    g2 \in make_move(g, self.children[i].action)}
    ELSE UNION {
           IF e.abort # "" THEN {Aborted(self, g, e.abort)}
           ELSE IF e.child = 0
           THEN LET delta == reward(g)
                IN  {[node  |-> update_statistics(e.node, delta),
                      game  |-> g,
                      delta |-> delta,
                      abort |-> ""]}
           ELSE UNION {
                  IF g2.abort # "" THEN {Aborted(self, g2, g2.abort)}
                  ELSE {IF p.ret.abort # "" THEN Aborted(self, g2, p.ret.abort)
                        ELSE LET delta == reward(p.ret)
                             IN  [node  |-> update_statistics(
                                               update_child(e.node, e.child, delta),
                                               delta),
                                  game  |-> p.initial,
                                  delta |-> delta,
                                  abort |-> ""] :
                          p \in playout(g2)} :
                  g2 \in make_move(g, e.node.children[e.child].action)} :
           e \in expand(self, g)}

----------------------------------------------------------------------------
(* MCTS *)

MCTS_new(g) == [root |-> TreeNode_new(None), game |-> clone(g)]

\* the loop of search: the roots after k more iterations, each on a clone of g
RECURSIVE search_loop(_, _, _, _)
search_loop(roots, g, k, c) ==
    IF k = 0 THEN roots
    ELSE search_loop(
           UNION {IF r.abort # "" THEN {r}
                  ELSE {[root |-> o.node, abort |-> o.abort] :
                          o \in iteration(r.root, clone(g), c)} :
                  r \in roots},
           g, k - 1, c)

\* the walk down the best children with c = 0
RECURSIVE best_path(_)

\* the walk collecting the action of the node it starts from as well
best_path_with_start(node) ==
    LET i == best_child(node, FromInt(0))
    IN  <<node.action>> \o (IF i = 0 THEN <<>> ELSE best_path(node.children[i]))

best_path(node) ==
    LET i == best_child(node, FromInt(0))
    IN  IF i = 0 THEN <<>>
        ELSE <<node.children[i].action>> \o best_path(node.children[i])

\* the iterations run on the game passed in, not on clones of it
search_in_place(self, g, n_samples, c) ==
    IF n_samples = 0
    THEN {[mcts |-> self, ret |-> best_path(self.root), game |-> g, abort |-> ""]}
    ELSE UNION {
           {[mcts  |-> [self EXCEPT !.root = r.root],
             ret   |-> IF r.abort # "" THEN <<>> ELSE best_path(r.root),
             game  |-> o.game,
             abort |-> r.abort] :
              r \in search_loop({[root |-> o.node, abort |-> o.abort]},
                                o.game, n_samples - 1, c)} :
           o \in iteration(self.root, g, c)}

\* search(game, n_samples, c): [mcts |-> self after the call, ret |-> the actions
\* returned, game |-> the game passed in after the call, abort |-> panic message]
search(self, g, n_samples, c) ==
    {[mcts  |-> [self EXCEPT !.root = r.root],
      ret   |-> IF r.abort # "" THEN <<>> ELSE best_path(r.root),
      game  |-> g,
      abort |-> r.abort] :
       r \in search_loop({[root |-> self.root, abort |-> ""]}, g, n_samples, c)}

\* best_action(): the first step of the best walk, None when the root has no child
best_action(self) ==
    LET i == best_child(self.root, FromInt(0))
    IN  IF i = 0 THEN None ELSE self.root.children[i].action

\* the subtree of the recommended child kept as the new tree
advance_game_reroot(self, new_state) ==
    LET i == best_child(self.root, FromInt(0))
    IN  [root |-> IF i = 0 THEN TreeNode_new(None) ELSE self.root.children[i],
         game |-> clone(new_state)]

\* advance_game(new_state): the tree is rebuilt from new_state
advance_game(self, new_state) == MCTS_new(new_state)

\* the sums score_sum can reach after k samples; -1 stands for a panic
RECURSIVE score_sums(_, _)
score_sums(g, k) ==
    IF k = 0 THEN {0}
    ELSE {IF s = -1 \/ p.ret.abort # "" THEN -1 ELSE s + reward(p.ret) :
            s \in score_sums(g, k - 1), p \in playout(g)}

\* expected_reward(game, n_samples): [ret |-> the f32 returned, abort]
expected_reward(g, n_samples) ==
    {IF s = -1 THEN [ret |-> NaN, abort |-> "panic in playout"]
     ELSE [ret |-> fdiv(FromInt(s), FromInt(n_samples)), abort |-> ""] :
       s \in score_sums(g, n_samples)}

----------------------------------------------------------------------------
(* The program: a game, one tree built from it, and the calls made on them *)

\* iterations run against the tree of the two-outcome scenario
ScenarioIters == 50
\* nodes created by direct calls of expand, and iteration calls mixed with them
MaxExpand == 2

\* boards the application starts from (set with set_tile on an empty board)
InitBoards ==
    { <<2, 8, 32, 8,  32, 128, 4, 16,  8, 16, 16, 128,  128, 64, 128, 4>>,
      <<0, 64, 2, 32,  128, 2, 8, 16,  32, 64, 32, 4,  8, 128, 8, 32>>,
      <<16, 8, 2, 2,  128, 32, 128, 16,  16, 2, 32, 4,  8, 32, 16, 64>>,
      <<2, 4, 2, 4,  4, 2, 4, 2,  2, 4, 2, 4,  4, 2, 4, 2>> }

\* seeds the application gives the generator of its game
Seeds == 1..Len(Streams)

InitGames ==
    {Scenario_new} \cup
    {set_rng_seed([new_empty EXCEPT !.board = b], seed) : b \in InitBoards, seed \in Seeds}

\* exploration constants passed by the callers
CValues == {FromInt(0), FromInt(1), FromInt(4)}

IterCap(g) == IF g.kind = "Scenario" THEN ScenarioIters ELSE MaxIter

NoResult ==
    [path |-> <<>>, action |-> None, child |-> 0, value |-> FromInt(0), out |-> <<>>]

Idle == [pc |-> "idle", game |-> new_empty]

Init ==
    /\ game \in InitGames
    /\ mcts = MCTS_new(game)
    /\ result = NoResult
    /\ po = Idle
    /\ panic = ""
    /\ last = [op |-> "new", n |-> 0]
    /\ iters = 0

\* no call is made while another runs or after a panic
Ready == panic = "" /\ po.pc # "loop"

\* root.iteration(&mut game.clone(), c), while fewer than cap calls were made
IterateUpTo(c, cap) ==
    /\ Ready
    /\ iters < cap
    /\ \E o \in iteration(mcts.root, clone(game), c) :
         /\ panic' = o.abort
         /\ mcts' = IF o.abort # "" THEN mcts ELSE [mcts EXCEPT !.root = o.node]
         /\ result' = [NoResult EXCEPT !.value = FromInt(o.delta)]
         /\ iters' = IF o.abort # "" THEN iters ELSE iters + 1
    /\ last' = [op |-> "iteration", n |-> 1]
    /\ po' = Idle
    /\ UNCHANGED game

Iterate(c) == IterateUpTo(c, IterCap(game))

\* mcts.search(&game, n_samples, c)
Search(n_samples, c) ==
    /\ Ready
    /\ iters + n_samples <= IterCap(game)
    /\ \E r \in search(mcts, game, n_samples, c) :
         /\ panic' = r.abort
         /\ mcts' = IF r.abort # "" THEN mcts ELSE r.mcts
         /\ game' = r.game
         /\ result' = [NoResult EXCEPT !.path = r.ret]
         /\ iters' = IF r.abort # "" THEN iters ELSE iters + n_samples
    /\ last' = [op |-> "search", n |-> n_samples]
    /\ po' = Idle

\* mcts.best_action()
BestAction ==
    /\ Ready
    /\ result' = [NoResult EXCEPT !.action = best_action(mcts)]
    /\ last' = [op |-> "best_action", n |-> 0]
    /\ po' = Idle
    /\ UNCHANGED <<game, mcts, panic, iters>>

\* main: the recommended action is applied to the game and the tree is advanced
Advance ==
    /\ Ready
    /\ game.moves < MaxAdvance
    /\ best_action(mcts) # None
    /\ \E g2 \in make_move(game, best_action(mcts)) :
         /\ panic' = g2.abort
         /\ game' = IF g2.abort # "" THEN game ELSE g2
         /\ mcts' = IF g2.abort # "" THEN mcts ELSE advance_game(mcts, g2)
         /\ iters' = IF g2.abort # "" THEN iters ELSE 0
    /\ result' = NoResult
    /\ last' = [op |-> "advance_game", n |-> mcts.root.n]
    /\ po' = Idle

\* expected_reward(&game, n_samples); it does not use the tree and is called
\* before the first iteration on the game
ExpectedReward(n_samples) ==
    /\ Ready
    /\ iters = 0
    /\ \E r \in expected_reward(game, n_samples) :
         /\ panic' = r.abort
         /\ result' = [NoResult EXCEPT !.value = r.ret]
    /\ last' = [op |-> "expected_reward", n |-> n_samples]
    /\ po' = Idle
    /\ UNCHANGED <<game, mcts, iters>>

\* playout(&game) is entered: let mut game = initial.clone(); it does not use
\* the tree and is called before the first iteration on the game or on the
\* game the first search has just returned from
PlayoutCall ==
    /\ Ready
    /\ iters = 0 \/ (last.op = "search" /\ iters = last.n)
    /\ po' = [pc |-> "loop", game |-> clone(game)]
    /\ result' = NoResult
    /\ last' = [op |-> "playout", n |-> 0]
    /\ UNCHANGED <<game, mcts, panic, iters>>

\* one turn of the loop of playout
PlayoutStep ==
    /\ panic = ""
    /\ po.pc = "loop"
    /\ playout_continues(allowed_actions(po.game))
    /\ \E action \in choose_random(allowed_actions(po.game)) :
         \E g2 \in make_move(po.game, action) :
            /\ panic' = g2.abort
            /\ po' = IF g2.abort # "" THEN po ELSE [po EXCEPT !.game = g2]
    /\ UNCHANGED <<game, mcts, result, last, iters>>

\* the loop of playout ends and the local game is returned
PlayoutReturn ==
    /\ panic = ""
    /\ po.pc = "loop"
    /\ ~ playout_continues(allowed_actions(po.game))
    /\ po' = [po EXCEPT !.pc = "done"]
    /\ UNCHANGED <<game, mcts, result, last, panic, iters>>

Next ==
    \/ \E c \in CValues : Iterate(c)
    \/ \E c \in CValues : \E n_samples \in 0..MaxSamples : Search(n_samples, c)
    \/ BestAction
    \/ Advance
    \/ \E n_samples \in 0..MaxSamples : ExpectedReward(n_samples)
    \/ PlayoutCall
    \/ PlayoutStep
    \/ PlayoutReturn

Spec == Init /\ [][Next]_vars

\* a playout that has been entered keeps running
FairSpec == Spec /\ WF_vars(PlayoutStep) /\ WF_vars(PlayoutReturn)

----------------------------------------------------------------------------
(* Direct calls on the nodes of the tree, as the unit tests make them *)

\* the nodes below self that no iteration has visited
RECURSIVE Unvisited(_)
Unvisited(self) ==
    LET RECURSIVE below(_)
        below(i) ==
            IF i > Len(self.children) THEN 0
            ELSE (IF self.children[i].n = 0 THEN 1 ELSE 0)
                 + Unvisited(self.children[i]) + below(i + 1)
    IN  below(1)

\* mcts.root.expand(&game)
ExpandRoot ==
    /\ Ready
    /\ Unvisited(mcts.root) < MaxExpand
    /\ \E e \in expand(mcts.root, game) :
         /\ panic' = e.abort
         /\ mcts' = IF e.abort # "" THEN mcts ELSE [mcts EXCEPT !.root = e.node]
         /\ result' = [NoResult EXCEPT !.child = e.child]
    /\ last' = [op |-> "expand", n |-> 0]
    /\ UNCHANGED <<game, po, iters>>

\* v.expand(&game) on a child v of the root
ExpandChild(i) ==
    /\ Ready
    /\ Unvisited(mcts.root) < MaxExpand
    /\ i \in 1..Len(mcts.root.children)
    /\ \E e \in expand(mcts.root.children[i], game) :
         /\ panic' = e.abort
         /\ mcts' = IF e.abort # "" THEN mcts
                    ELSE [mcts EXCEPT !.root.children[i] = e.node]
         /\ result' = [NoResult EXCEPT !.child = e.child]
    /\ last' = [op |-> "expand", n |-> i]
    /\ UNCHANGED <<game, po, iters>>

\* mcts.root.best_child(c)
BestChild(c) ==
    /\ Ready
    /\ result' = [NoResult EXCEPT !.child = best_child(mcts.root, c)]
    /\ last' = [op |-> "best_child", n |-> 0]
    /\ UNCHANGED <<game, mcts, po, panic, iters>>

NextExpand ==
    \/ ExpandRoot
    \/ \E i \in 1..WIDTH : ExpandChild(i)
    \/ \E c \in CValues : BestChild(c)
    \/ \E c \in CValues : IterateUpTo(c, MaxExpand)

\* the trees are built over games with at most two actions, as in test_expand
InitExpand == Init /\ Len(allowed_actions(game)) <= 2

SpecExpand == InitExpand /\ [][NextExpand]_vars

----------------------------------------------------------------------------
(* 2048 on its own: the calls the tests of twofortyeight.rs make on a game *)

\* tiles placed with set_tile before anything else is called
MaxTiles == 2
\* moves made on one game
MaxMoves == 1
\* longest line passed to merge_vec
MaxLine == 4

\* values placed with set_tile
TileValues == {2, 4}

\* values of the tiles of the lines passed to merge_vec
LineTiles == {0, 2, 4, 32768}

Lines == UNION {[1..n -> LineTiles] : n \in 1..MaxLine}

\* the number of tiles on the board
tiles(g) == Cardinality({k \in 1..(WIDTH * HEIGHT) : g.board[k] # 0})

\* a game is made, empty or with one of the boards of InitBoards
InitBoard ==
    /\ game \in {new_empty} \cup {g \in InitGames : g.kind = "TwoFortyEight"}
    /\ mcts = MCTS_new(game)
    /\ result = NoResult
    /\ po = Idle
    /\ panic = ""
    /\ last = [op |-> "new", n |-> 0]
    /\ iters = 0

\* game.set_tile(row, col, num) on an empty cell, while the board is set up
SetTile(row, col, num) ==
    /\ Ready
    /\ last.op \in {"new", "set_tile"}
    /\ tiles(game) < MaxTiles
    /\ get_tile(game, row, col) = 0
    /\ game' = set_tile(game, row, col, num)
    /\ last' = [op |-> "set_tile", n |-> 0]
    /\ UNCHANGED <<mcts, result, po, panic, iters>>

\* TwoFortyEight::shift_and_merge(game.board, &action)
ShiftAndMerge(action) ==
    /\ Ready
    /\ result' = [NoResult EXCEPT !.out = shift_and_merge(game.board, action)]
    /\ last' = [op |-> "shift_and_merge", n |-> 0]
    /\ UNCHANGED <<game, mcts, po, panic, iters>>

\* game.allowed_actions()
AllowedActions ==
    /\ Ready
    /\ result' = [NoResult EXCEPT !.path = allowed_actions(game)]
    /\ last' = [op |-> "allowed_actions", n |-> 0]
    /\ UNCHANGED <<game, mcts, po, panic, iters>>

\* game.make_move(&action)
MakeMove(action) ==
    /\ Ready
    /\ game.moves < MaxMoves
    /\ \E g2 \in make_move(game, action) :
         /\ panic' = g2.abort
         /\ game' = IF g2.abort # "" THEN game ELSE g2
    /\ result' = NoResult
    /\ last' = [op |-> "make_move", n |-> 0]
    /\ UNCHANGED <<mcts, po, iters>>

NextShift ==
    \/ \E row \in 0..(HEIGHT - 1), col \in 0..(WIDTH - 1), num \in TileValues :
          SetTile(row, col, num)
    \/ \E action \in {Up, Down, Left, Right} : ShiftAndMerge(action)
    \/ AllowedActions
    \/ \E action \in {Up, Down, Left, Right} : MakeMove(action)

SpecShift == InitBoard /\ [][NextShift]_vars

\* TwoFortyEight::merge_vec(&vec)
MergeVec(vec) ==
    /\ Ready
    /\ result' = [NoResult EXCEPT !.path = vec, !.out = merge_vec(vec)]
    /\ last' = [op |-> "merge_vec", n |-> 0]
    /\ UNCHANGED <<game, mcts, po, panic, iters>>

NextMerge == \E vec \in Lines : MergeVec(vec)

SpecMerge == InitBoard /\ [][NextMerge]_vars

\* the games random_spawn is called on: the games of InitBoard and the games
\* with one tile placed by set_tile
SpawnGames ==
    {set_rng_seed(new_empty, seed) : seed \in Seeds} \cup
    {g \in InitGames : g.kind = "TwoFortyEight"} \cup
    {set_tile(set_rng_seed(new_empty, seed), row, col, num) :
        seed \in Seeds, row \in 0..(HEIGHT - 1), col \in 0..(WIDTH - 1),
        num \in TileValues}

InitSpawn ==
    /\ game \in SpawnGames
    /\ mcts = MCTS_new(game)
    /\ result = NoResult
    /\ po = Idle
    /\ panic = ""
    /\ last = [op |-> "new", n |-> 0]
    /\ iters = 0

\* game.random_spawn(); last.n counts the calls made on the game
RandomSpawn ==
    /\ Ready
    /\ \E g2 \in random_spawn(game) :
         /\ panic' = g2.abort
         /\ game' = IF g2.abort # "" THEN game ELSE g2
    /\ last' = [op |-> "random_spawn", n |-> last.n + 1]
    /\ UNCHANGED <<mcts, result, po, iters>>

NextSpawn == RandomSpawn

SpecSpawn == InitSpawn /\ [][NextSpawn]_vars

----------------------------------------------------------------------------
(* Properties *)

\* C1: after k iteration calls on a fresh tree over a non-terminal root state
\* with m legal actions, the root has n = k and min(k, m) children.
C1_RootCounts ==
    (panic = "" /\ Len(allowed_actions(mcts.game)) > 0) =>
        /\ mcts.root.n = iters
        /\ Len(mcts.root.children) =
              IF iters < Len(allowed_actions(mcts.game)) THEN iters
              ELSE Len(allowed_actions(mcts.game))

\* more iterations than the root has actions, on a 2048 board
C1_Witness ==
    /\ panic = ""
    /\ game.kind = "TwoFortyEight"
    /\ Len(allowed_actions(mcts.game)) = 2
    /\ iters = 3
    /\ Len(mcts.root.children) = 2

\* C2: no make_move issued by the engine (descending into the best child,
\* applying the action of a new child, stepping a playout) is an illegal move.
C2_NoIllegalMove == panic # "Illegal move"

\* a tree in which an iteration went down into a child and expanded it
C2_Witness ==
    /\ panic = ""
    /\ \E i \in 1..Len(mcts.root.children) :
         /\ mcts.root.children[i].n >= 2
         /\ Len(mcts.root.children[i].children) >= 1

\* C3: every playout that is entered returns, and the state it returns has no
\* allowed action.
C3_PlayoutTerminates ==
    /\ [](po.pc = "loop" => <>(po.pc = "done"))
    /\ [](po.pc = "done" => Len(allowed_actions(po.game)) = 0)

\* a playout that made at least two moves has returned
C3_Witness == po.pc = "done" /\ po.game.moves >= game.moves + 2

\* C4: in the two-outcome scenario, after 50 iterations the walk with c = 0
\* returns the action that leads to reward 10.
C4_ScenarioBest ==
    (panic = "" /\ mcts.game = Scenario_new /\ iters = ScenarioIters) =>
        /\ best_path(mcts.root) = <<Ten>>
        /\ (last.op = "search" => result.path = <<Ten>>)

\* a search has returned after the 50th iteration in the scenario
C4_Witness ==
    /\ mcts.game = Scenario_new
    /\ iters = ScenarioIters
    /\ last.op = "search"
    /\ last.n >= 1
    /\ result.path = <<Ten>>

\* C5: a search of at least one iteration on a non-terminal state returns a
\* path whose first action is an allowed action of that state.
C5_SearchReturnsLegalAction ==
    (last.op = "search" /\ last.n >= 1 /\ Len(allowed_actions(game)) > 0) =>
        /\ panic = ""
        /\ result.path # <<>>
        /\ result.path[1] \in Range(allowed_actions(game))

\* a search on a 2048 board returned a path of two actions
C5_Witness ==
    /\ last.op = "search"
    /\ last.n >= 1
    /\ game.kind = "TwoFortyEight"
    /\ Len(result.path) >= 2

\* C6: a root without children gives the empty path, and the root has no
\* children when no iteration has run and when the root state is terminal.
C6_NoChildrenNoRecommendation ==
    /\ Len(mcts.root.children) = 0 => best_path(mcts.root) = <<>>
    /\ (iters = 0 \/ Len(allowed_actions(mcts.game)) = 0) => Len(mcts.root.children) = 0
    /\ (last.op = "search" /\ panic = "" /\ (iters = 0 \/ Len(allowed_actions(mcts.game)) = 0))
          => result.path = <<>>

\* a search of two iterations on a terminal root has returned
C6_Witness ==
    /\ last.op = "search"
    /\ last.n = 2
    /\ panic = ""
    /\ Len(allowed_actions(mcts.game)) = 0
    /\ mcts.root.n >= 2

\* C7: after advance_game the tree is new: the best-action query returns None
\* and nothing of the statistics gathered before is left.
C7_AdvanceDiscards ==
    (last.op = "advance_game" /\ panic = "") =>
        /\ best_action(mcts) = None
        /\ mcts.root = TreeNode_new(None)
        /\ mcts.game = game

\* the tree advanced had been visited at least twice
C7_Witness == last.op = "advance_game" /\ panic = "" /\ last.n >= 2

\* C8: expected_reward with n_samples = 0 is rejected or returns 0 (stated for
\* the calls on a 2048 state).
C8_ZeroSamplesRejectedOrZero ==
    (game.kind = "TwoFortyEight" /\ last.op = "expected_reward" /\ last.n = 0) =>
        (panic # "" \/ result.value = FromInt(0))

\* C10: playout and search leave the game state passed to them as it was.
C10_CallerStateUnchanged ==
    [][last'.op \in {"search", "playout"} => game' = game]_vars

\* a playout on the state a tree was searched from returned another state
C10_Witness ==
    /\ po.pc = "done"
    /\ po.game # game
    /\ iters >= 1
    /\ mcts.game = game

\* C9: best_child on a node with an unvisited child returns an unvisited child
\* (stated for the trees over a 2048 state).
C9_UnvisitedChildPreferred ==
    (/\ game.kind = "TwoFortyEight"
     /\ last.op = "best_child"
     /\ \E i \in 1..Len(mcts.root.children) : mcts.root.children[i].n = 0) =>
        /\ result.child # 0
        /\ mcts.root.children[result.child].n = 0

\* every node of the tree below and including node
RECURSIVE TreeNodes(_)
TreeNodes(node) ==
    {node} \cup UNION {TreeNodes(node.children[i]) : i \in 1..Len(node.children)}

\* C11: in every state reached by expand and iteration calls, every node of
\* the tree has n >= 0, and q = 0 when n = 0.
C11_StatisticsWellFormed ==
    \A node \in TreeNodes(mcts.root) : node.n >= 0 /\ (node.n = 0 => node.q = 0)

\* a tree with a child made by a direct expand next to a child an iteration
\* visited with a positive reward
C11_Witness ==
    /\ panic = ""
    /\ \E node \in TreeNodes(mcts.root) : node.action # None /\ node.n = 0
    /\ \E node \in TreeNodes(mcts.root) : node.action # None /\ node.n >= 1 /\ node.q > 0

\* the state make_move(action) leaves behind (the generator is deterministic)
Moved(g, action) == CHOOSE g2 \in make_move(g, action) : TRUE

\* every node below and including node, with its place in the tree (the
\* indexes of the children on the way down) and the game state at it: the
\* state reached from g by the actions on the way down
RECURSIVE Placed(_, _, _)
Placed(node, g, path) ==
    {[node |-> node, game |-> g, path |-> path]} \cup
    UNION {Placed(node.children[i], Moved(g, node.children[i].action), Append(path, i)) :
             i \in 1..Len(node.children)}

\* C12: the children of every node carry pairwise distinct actions, each a
\* legal action of the game state at that node, and only the root has action
\* None.
C12_ChildrenDistinctLegal ==
    /\ mcts.root.action = None
    /\ \A p \in Placed(mcts.root, mcts.game, <<>>) :
          \A i \in 1..Len(p.node.children) :
             /\ p.node.children[i].action # None
             /\ p.node.children[i].action \in Range(allowed_actions(p.game))
             /\ \A j \in 1..Len(p.node.children) :
                   i # j => p.node.children[i].action # p.node.children[j].action

\* a child of the root of a 2048 tree has two children of its own
C12_Witness ==
    /\ panic = ""
    /\ game.kind = "TwoFortyEight"
    /\ \E i \in 1..Len(mcts.root.children) : Len(mcts.root.children[i].children) = 2

\* C13: a node whose state has legal actions is fully expanded exactly when
\* its children carry all of them, and expand never finds such a node without
\* an untried action.
C13_FullyExpandedIffAllChildren ==
    /\ panic # "choose_random of an empty list"
    /\ \A p \in Placed(mcts.root, mcts.game, <<>>) :
          Len(allowed_actions(p.game)) > 0 =>
             (p.node.fully_expanded <=>
                {p.node.children[i].action : i \in 1..Len(p.node.children)}
                   = Range(allowed_actions(p.game)))

\* below a fully expanded root, a child is fully expanded with two children
C13_Witness ==
    /\ panic = ""
    /\ mcts.root.fully_expanded
    /\ \E i \in 1..Len(mcts.root.children) :
          /\ mcts.root.children[i].fully_expanded
          /\ ~ mcts.root.children[i].terminal_state
          /\ Len(mcts.root.children[i].children) >= 2

\* C14: a node whose state has no legal actions never gets a child and is
\* marked terminal by the first iteration that reaches it (a child is created
\* with one visit, the root with none) and stays so; each iteration that
\* reaches it adds 1 to its n and the reward of its state to its q, and that
\* reward is the value the iteration returns up to the root.
C14_TerminalNodes ==
    /\ [](\A p \in Placed(mcts.root, mcts.game, <<>>) :
            /\ p.node.terminal_state => Len(allowed_actions(p.game)) = 0
            /\ Len(allowed_actions(p.game)) = 0 =>
                  /\ Len(p.node.children) = 0
                  /\ p.node.terminal_state <=>
                        p.node.n >= (IF p.path = <<>> THEN 1 ELSE 2)
                  /\ p.node.q = p.node.n * reward(p.game))
    /\ [][(mcts'.game = mcts.game /\ mcts'.root # mcts.root) =>
            \A p \in Placed(mcts.root, mcts.game, <<>>) :
               \E p2 \in Placed(mcts'.root, mcts'.game, <<>>) :
                  /\ p2.path = p.path
                  /\ p.node.terminal_state =>
                        p2.node.terminal_state /\ Len(p2.node.children) = 0
                  /\ (/\ last'.op = "iteration"
                      /\ panic' = ""
                      /\ Len(allowed_actions(p.game)) = 0
                      /\ p2.node.n # p.node.n) =>
                        /\ p2.node.terminal_state
                        /\ p2.node.n = p.node.n + 1
                        /\ p2.node.q = p.node.q + reward(p.game)
                        /\ result'.value = FromInt(reward(p.game))]_vars

\* a child of the root of a 2048 tree was marked terminal and visited again
C14_Witness ==
    /\ panic = ""
    /\ last.op = "iteration"
    /\ \E i \in 1..Len(mcts.root.children) :
          /\ mcts.root.children[i].terminal_state
          /\ mcts.root.children[i].n >= 3
          /\ mcts.root.children[i].q > 0

\* the sum of n over the children of node
RECURSIVE children_n(_, _)
children_n(node, i) ==
    IF i > Len(node.children) THEN 0
    ELSE node.children[i].n + children_n(node, i + 1)

\* C15: root.n is the number of iterations run; a root not marked terminal has
\* n = the sum of its children's n and any other node not marked terminal has
\* n = 1 + that sum; one iteration adds 1 to n and the value it returns to q
\* of every node on one path from the root (a node it creates starts with
\* that), and changes no other node.
C15_VisitsConserved ==
    /\ [](/\ mcts.root.n = iters
          /\ \A p \in Placed(mcts.root, mcts.game, <<>>) :
                ~ p.node.terminal_state =>
                   p.node.n = (IF p.path = <<>> THEN 0 ELSE 1) + children_n(p.node, 1))
    /\ [][(last'.op = "iteration" /\ panic' = "") =>
            LET before == Placed(mcts.root, mcts.game, <<>>)
                after  == Placed(mcts'.root, mcts'.game, <<>>)
                delta  == mcts'.root.q - mcts.root.q
                visited == {p2 \in after : \A p \in before :
                               p.path = p2.path => p.node # p2.node}
            IN  /\ result'.value = FromInt(delta)
                /\ mcts'.root.n = mcts.root.n + 1
                /\ \A p \in before : \E p2 \in after : p2.path = p.path
                /\ \A p2 \in visited :
                      /\ \A p \in before :
                            p.path = p2.path =>
                               /\ p2.node.n = p.node.n + 1
                               /\ p2.node.q = p.node.q + delta
                      /\ (\A p \in before : p.path # p2.path) =>
                            p2.node.n = 1 /\ p2.node.q = delta
                      /\ \A p3 \in visited :
                            \/ Len(p2.path) <= Len(p3.path)
                                  /\ SubSeq(p3.path, 1, Len(p2.path)) = p2.path
                            \/ Len(p3.path) <= Len(p2.path)
                                  /\ SubSeq(p2.path, 1, Len(p3.path)) = p3.path]_vars

\* an iteration went down through a child visited three times, which has two
\* children visited once each
C15_Witness ==
    /\ panic = ""
    /\ last.op = "iteration"
    /\ mcts.root.n >= 4
    /\ \E i \in 1..Len(mcts.root.children) :
          /\ mcts.root.children[i].n = 3
          /\ Len(mcts.root.children[i].children) = 2
          /\ \A j \in 1..2 : mcts.root.children[i].children[j].n = 1

\* C16: every node but the root has n >= 1, so a node on which iteration takes
\* the fully expanded branch has a child, best_child divides by no zero visit
\* count there and returns a child: its unwrap never fails.
C16_FullyExpandedBranchSafe ==
    /\ panic # "unwrap on a None value"
    /\ \A p \in Placed(mcts.root, mcts.game, <<>>) :
          /\ p.path # <<>> => p.node.n >= 1
          /\ (p.node.fully_expanded /\ ~ p.node.terminal_state) =>
                /\ Len(p.node.children) >= 1
                /\ \A i \in 1..Len(p.node.children) : p.node.children[i].n >= 1
                /\ \A c \in CValues : best_child(p.node, c) # 0

\* iterations went down from a fully expanded root whose best child depends
\* on the exploration constant
C16_Witness ==
    /\ panic = ""
    /\ mcts.root.fully_expanded
    /\ mcts.root.n > Len(mcts.root.children)
    /\ best_child(mcts.root, FromInt(0)) # best_child(mcts.root, FromInt(4))

\* C17: shift_and_merge returns Some(points) exactly when the board it returns
\* differs from the board it was given, and allowed_actions lists exactly the
\* directions whose shift_and_merge changes the board.
C17_ChangeIffBoardDiffers ==
    /\ last.op = "shift_and_merge" =>
          (result.out.points # -1 <=> result.out.board # game.board)
    /\ last.op = "allowed_actions" =>
          result.path = SelectSeq(<<Up, Down, Left, Right>>,
                           LAMBDA a : shift_and_merge(game.board, a).board # game.board)

RECURSIVE Sum(_)
Sum(line) == IF line = <<>> THEN 0 ELSE Head(line) + Sum(Tail(line))

NonZero(line) == SelectSeq(line, LAMBDA t : t # 0)

\* the choices of merges in a line of tiles: the positions whose tile merges with
\* its equal right neighbour, no tile being in two merges
PairChoices(line) ==
    {m \in SUBSET (1..(Len(line) - 1)) :
        \A i \in m : line[i] = line[i + 1] /\ (i + 1) \notin m}

\* the line after the merges at the positions m, from position i on
RECURSIVE MergedAt(_, _, _)
MergedAt(line, m, i) ==
    IF i > Len(line) THEN <<>>
    ELSE IF i \in m THEN <<2 * line[i]>> \o MergedAt(line, m, i + 2)
    ELSE <<line[i]>> \o MergedAt(line, m, i + 1)

\* the points of the merges at the positions m: the values of the tiles created
RECURSIVE MergePoints(_, _)
MergePoints(line, m) ==
    IF m = {} THEN 0
    ELSE LET i == CHOOSE j \in m : TRUE
         IN  2 * line[i] + MergePoints(line, m \ {i})

\* C18: merge_vec returns a line of the same length with the non-zero tiles at
\* the front in their original order, each tile in at most one merge of two
\* equal neighbours, the sum of the tiles preserved and points the sum of the
\* tiles created; [2,2,2,0] gives [4,2,0,0] with 4 points and [2,2,4,4] gives
\* [4,8,0,0] with 12 points.
C18_MergeVecLaw ==
    last.op = "merge_vec" =>
        /\ Len(result.out.vec) = Len(result.path)
        /\ \A i, j \in 1..Len(result.out.vec) :
              (i < j /\ result.out.vec[i] = 0) => result.out.vec[j] = 0
        /\ \E m \in PairChoices(NonZero(result.path)) :
              /\ NonZero(result.out.vec) = MergedAt(NonZero(result.path), m, 1)
              /\ result.out.points = MergePoints(NonZero(result.path), m)
        /\ Sum(result.out.vec) = Sum(result.path)
        /\ result.path = <<2, 2, 2, 0>> =>
              (result.out.vec = <<4, 2, 0, 0>> /\ result.out.points = 4)
        /\ result.path = <<2, 2, 4, 4>> =>
              (result.out.vec = <<4, 8, 0, 0>> /\ result.out.points = 12)

\* C19: for every 2048 state and every action of its allowed_actions the board
\* shift_and_merge returns has an empty cell, so the assertion of random_spawn
\* called from make_move never fails.
C19_AllowedShiftLeavesEmptyCell ==
    /\ panic # "assertion failed: !self.board_full()"
    /\ \A k \in 1..Len(allowed_actions(game)) :
          ~board_full([game EXCEPT
               !.board = shift_and_merge(game.board, allowed_actions(game)[k]).board])

\* a move was made on a full board: the merge made room for the spawned tile
C19_Witness ==
    /\ last.op = "make_move"
    /\ panic = ""
    /\ game.moves = 1
    /\ board_full(game)

\* C20: random_spawn on a board that is not full turns exactly one empty cell
\* into a 2 and leaves the other cells, the score and the move count as they
\* were; from the empty board the board is not full before each of the first
\* WIDTH*HEIGHT spawns and full after exactly WIDTH*HEIGHT of them.
C20_SpawnFillsOneEmptyCell ==
    /\ [][(last' # last /\ last'.op = "random_spawn" /\ ~board_full(game)) =>
            /\ panic' = ""
            /\ \E k \in 1..(WIDTH * HEIGHT) :
                  /\ game.board[k] = 0
                  /\ game'.board = [game.board EXCEPT ![k] = 2]
            /\ game'.score = game.score
            /\ game'.moves = game.moves]_vars
    /\ [](mcts.game.board = [k \in 1..(WIDTH * HEIGHT) |-> 0] =>
            /\ panic # "" => last.n > WIDTH * HEIGHT
            /\ panic = "" => (board_full(game) <=> last.n = WIDTH * HEIGHT))

\* the empty board was filled by WIDTH*HEIGHT spawns
C20_Witness ==
    /\ mcts.game.board = [k \in 1..(WIDTH * HEIGHT) |-> 0]
    /\ last = [op |-> "random_spawn", n |-> WIDTH * HEIGHT]
    /\ panic = ""
    /\ board_full(game)

====
